---- MODULE Spec2Model ----
(***************************************************************************)
(* The reconciliation engine of config-controller (Manager, manager.ts):   *)
(* the watch-fed cache of ConfigMap/Secret pairs, the syncSecrets          *)
(* scheduler and the _syncSecrets pass, run against a small cluster that   *)
(* holds the ConfigMaps and Secrets and feeds the two watches.             *)
(*                                                                         *)
(* Execution model: Node's single-threaded event loop.  One action is one  *)
(* macrotask (a watch callback, a timer callback, the completion of a      *)
(* cluster API call) together with every microtask it causes, so a pass    *)
(* runs inside the action that starts or resumes it until it reaches the   *)
(* next cluster call (await) or its end (then/catch/finally).              *)
(***************************************************************************)
EXTENDS Integers, Sequences, FiniteSets, TLC

\* ------------------------------------------------------------------ bounds
\* Cluster changes made by users (each one takes a new resourceVersion).
MaxChanges == 2
\* Cluster API calls that fail for a transient reason.
MaxFailures == 1
\* Outstanding setTimeout(..., 0) re-runs above which timer ticks and direct
\* calls are held back.
MaxDeferred == 1
\* The same bounds for the specification with fairness.
LiveMaxChanges == 2
LiveMaxFailures == 1
\* Transport errors of the watches (specification with watch errors).
MaxWatchErrors == 1

\* ------------------------------------------------------------------ values
\* An optional value (a TypeScript `x?: T`): <<>> is undefined, <<v>> is v.
Undefined == <<>>
Some(v) == <<v>>

Namespaces == {"default"}
SecretNames == {"s1", "s2"}
ConfigMapNames == {"a", "b"}

\* `${namespace}/${name}`, the key of the cache.
PairKey(namespace, name) == <<namespace, name>>

\* Buffer.from(v).toString('base64') and Buffer.from(b, 'base64').toString('utf-8').
Base64(v) == <<"base64", v>>
Base64Decode(b) == b[2]

\* Secrets holding decryption keys (not labelled, so never watched): name ->
\* its data, entry -> base64 value.
KeySecrets == [n \in {"keys", "custom"} |->
                 IF n = "keys" THEN [e \in {"CONFIG_DECRYPTION_KEY"} |-> Base64("key1")]
                 ELSE [e \in {"CONFIG_DECRYPTION_KEY", "CUSTOM_KEY"} |->
                          IF e = "CUSTOM_KEY" THEN Base64("key2") ELSE Base64("key3")]]

\* parseEnvContent(data, decryptionSecret) of @signal24/config: the variables
\* of the env text, name -> plaintext value.
ParseEnvContent(data, decryptionSecret) == [k \in {"APP_KEY"} |-> data]

\* The labels and data a user gives a ConfigMap: the source-key label, the
\* decryption-secret and decryption-secret-key labels, the keys of data, and
\* whether parseEnvContent accepts the content.
PlainLabels == [sourceKey |-> Undefined, decryptionSecret |-> Undefined,
                decryptionSecretKey |-> Undefined, data |-> {".env"}, content |-> "ok"]
NoSourceLabels == [PlainLabels EXCEPT !.data = {"other"}, !.decryptionSecret = Some("keys")]
EncryptedLabels == [PlainLabels EXCEPT !.decryptionSecret = Some("keys")]
CustomLabels == [PlainLabels EXCEPT !.sourceKey = Some("config"), !.data = {"config"},
                                    !.decryptionSecret = Some("custom"),
                                    !.decryptionSecretKey = Some("CUSTOM_KEY")]
WrongSourceLabels == [CustomLabels EXCEPT !.data = {".env"}]
\* The Secret "keys" has no entry CUSTOM_KEY.
MissingKeyLabels == [EncryptedLabels EXCEPT !.decryptionSecretKey = Some("CUSTOM_KEY")]
\* Content parseEnvContent throws on: malformed, or not decryptable with the key.
BadContentLabels == [PlainLabels EXCEPT !.content = "bad"]
BadEncryptedLabels == [EncryptedLabels EXCEPT !.content = "bad"]

\* The ConfigMaps users apply: <<name, target-secret label, labels and data>>.
Applies ==
    { <<"a", "s1", PlainLabels>>, <<"a", "s2", PlainLabels>>, <<"b", "s1", PlainLabels>>,
      <<"b", "s2", NoSourceLabels>>, <<"b", "s2", EncryptedLabels>>,
      <<"b", "s2", CustomLabels>>, <<"b", "s2", WrongSourceLabels>>,
      <<"b", "s2", MissingKeyLabels>>, <<"a", "s1", BadContentLabels>>,
      <<"a", "s1", BadEncryptedLabels>> }
LiveApplies == { <<"a", "s1", PlainLabels>>, <<"b", "s2", PlainLabels>> }

ConfigMapObject(namespace, name, target, version, t) ==
    [namespace |-> namespace, name |-> name, target |-> target,
     resourceVersion |-> version, sourceKey |-> t.sourceKey,
     decryptionSecret |-> t.decryptionSecret,
     decryptionSecretKey |-> t.decryptionSecretKey,
     data |-> t.data, content |-> t.content]

\* A Secret: its identity, the two labels the engine writes, and its data.
SecretObject(namespace, name, source, version, data) ==
    [namespace |-> namespace, name |-> name,
     sourceConfigMap |-> source, sourceConfigMapVersion |-> version, data |-> data]

\* ------------------------------------------------------------------ state
VARIABLES
    startPc,        \* Manager.start: "watchConfigMaps", "watchSecrets", "delay", "started"
    isReady,        \* Manager.isReady
    isPendingSync,  \* Manager.isPendingSync
    cache,          \* Manager.cache: key -> [secret, configMap]
    cacheOrder,     \* the keys of cache in insertion order (for-in order)
    pass,           \* the suspended _syncSecrets call
    deferred,       \* outstanding setTimeout(() => this.syncSecrets(), 0)
    configMaps,     \* the cluster's labelled ConfigMaps
    secrets,        \* the cluster's labelled Secrets
    changes,        \* user changes so far (the cluster's resourceVersion)
    failures,       \* transient call failures so far
    cmWatching,     \* the ConfigMap watch is registered
    secWatching,    \* the Secret watch is registered
    cmEvents,       \* ConfigMap watch events not yet delivered
    secEvents,      \* Secret watch events not yet delivered
    watchRetry,     \* outstanding setTimeout(() => this.watch...(), 1000), by kind
    watchErrors,    \* transport errors so far
    hist            \* what the engine did (history, read by the properties only)

engineVars == <<startPc, isReady, isPendingSync, cache, cacheOrder, pass, deferred>>
clusterVars == <<configMaps, secrets, changes, failures, cmWatching, secWatching,
                 cmEvents, secEvents, watchRetry, watchErrors>>
vars == <<startPc, isReady, isPendingSync, cache, cacheOrder, pass, deferred,
          configMaps, secrets, changes, failures, cmWatching, secWatching,
          cmEvents, secEvents, watchRetry, watchErrors, hist>>

\* ------------------------------------------------------------------ helpers
Min(a, b) == IF a < b THEN a ELSE b

Put(f, k, v) == [x \in DOMAIN f \cup {k} |-> IF x = k THEN v ELSE f[x]]
Remove(f, k) == [x \in DOMAIN f \ {k} |-> f[x]]
Without(s, k) == SelectSeq(s, LAMBDA x : x # k)

EmptyEntry == [secret |-> Undefined, configMap |-> Undefined]
\* { ...this.cache[secretName] }: the fields of the entry, none when there is no entry.
Spread(c, k) == IF k \in DOMAIN c THEN c[k] ELSE EmptyEntry

IdlePass == [pc |-> "idle", todo |-> <<>>, secretName |-> PairKey("", ""),
             secret |-> Undefined, configMap |-> Undefined,
             existing |-> FALSE, stale |-> FALSE, body |-> Undefined,
             calls |-> {}]   \* cluster calls issued for the entry being handled

NoHistory ==
    [activePasses |-> 0,  \* _syncSecrets calls that have not reached finally
     visited |-> {},      \* entries the loop read at line 106: [key, halves]
     issued |-> {},       \* cluster calls issued: [op, key]
     removed |-> {},      \* keys deleted from the cache
     written |-> {},      \* keys whose entry was assigned a Secret
     deleted |-> {},      \* Secrets whose delete call succeeded
     errors |-> {},       \* logger.error calls: [msg, key]
     parsed |-> {},       \* parseEnvContent calls: [configMap, data, decryptionSecret]
     returned |-> {},     \* Secrets a create or replace call returned
     lost |-> {},         \* ConfigMaps that were in an entry deleted from the cache
     skipped |-> {},      \* keys left unvisited when the pass ended
     failed |-> {},       \* cluster calls that threw: [op, key]
     aborted |-> {},      \* throws of createSecretForConfigMap's own: [key, kind]
     events |-> {},       \* watch events the callbacks received: [kind, type, key]
     created |-> {},      \* keys whose Secret the engine has created and has neither
                          \* deleted nor been told of its deletion since
     quiet |-> "off",     \* "first": a pass is in flight, and since it started no watch
                          \* event has arrived and no cluster call has failed;
                          \* "between": it has ended so; "second": the next pass is
                          \* in flight, still so; "off" otherwise
     started |-> "no",    \* a pass started: "trigger", "rerun" (by the line 100 callback)
     owed |-> FALSE,      \* a trigger arrived and no pass has started since
     inPass |-> 0,        \* triggers that arrived during the pass in flight (2: two or more)
     armed |-> FALSE,     \* a pass that coalesced two or more triggers has completed,
                          \* and no trigger has arrived since
     extra |-> 0]         \* passes started since then

\* visited ... events tell what the latest step did: each step starts them
\* empty; created and quiet are kept from step to step.  armed is dropped once the pass it waited for has run and completed.
NewStep(h) ==
    [h EXCEPT !.visited = {}, !.issued = {}, !.removed = {}, !.written = {},
              !.deleted = {}, !.errors = {}, !.started = "no",
              !.parsed = {}, !.returned = {}, !.lost = {}, !.skipped = {},
              !.failed = {}, !.aborted = {}, !.events = {},
              !.armed = @ /\ ~(h.extra >= 1 /\ pass.pc = "idle"),
              !.extra = IF h.armed /\ ~(h.extra >= 1 /\ pass.pc = "idle") THEN @ ELSE 0]

\* The engine as one value, for the operators that run a handler to its end.
Engine == [isReady |-> isReady, isPendingSync |-> isPendingSync, cache |-> cache,
           cacheOrder |-> cacheOrder, pass |-> pass, deferred |-> deferred,
           hist |-> NewStep(hist)]

\* The engine's variables take the value e (evaluated once).
Commit(e) ==
    \E m \in {e} :
        /\ isReady' = m.isReady
        /\ isPendingSync' = m.isPendingSync
        /\ cache' = m.cache
        /\ cacheOrder' = m.cacheOrder
        /\ pass' = m.pass
        /\ deferred' = m.deferred
        /\ hist' = m.hist

\* A cluster call threw.
Threw(m, op, key) ==
    [m EXCEPT !.hist.failed = @ \cup {[op |-> op, key |-> key]},
              !.hist.quiet = "off"]

\* createSecretForConfigMap threw for the entry being handled, at line 145
\* ("MissingSourceKey"), at line 168 ("MissingDecryptionKey") or in
\* parseEnvContent ("DecryptionFailed").
Aborted(m, kind) ==
    [m EXCEPT !.hist.aborted = @ \cup {[key |-> m.pass.secretName, kind |-> kind]}]

LogError(m, msg, key) ==
    [m EXCEPT !.hist.errors = @ \cup {[msg |-> msg, key |-> key]}]

Issue(m, op, key) ==
    [m EXCEPT !.hist.issued = @ \cup {[op |-> op, key |-> key]},
              !.pass.calls = @ \cup {op}]

\* DeleteEntry that leaves the entry in the cache.
DeleteEntryKeepsEntry(m, key) == m

\* delete this.cache[secretName]
DeleteEntry(m, key) ==
    [m EXCEPT !.cache = Remove(@, key),
              !.cacheOrder = Without(@, key),
              !.hist.removed = @ \cup {key},
              !.hist.lost = @ \cup (IF key \in DOMAIN m.cache /\ m.cache[key].configMap # Undefined
                                    THEN {m.cache[key].configMap[1]} ELSE {})]

\* F(e), with e evaluated once.
Then(e, F(_)) == CHOOSE r \in {F(m) : m \in {e}} : TRUE

\* What the loop finds in an entry: which halves are present and, with both,
\* whether the Secret's version label is the ConfigMap's resourceVersion.
Halves(secret, configMap) ==
    IF secret = Undefined /\ configMap = Undefined THEN "none"
    ELSE IF configMap = Undefined THEN "secret"
    ELSE IF secret = Undefined THEN "configMap"
    ELSE IF secret[1].sourceConfigMapVersion = configMap[1].resourceVersion THEN "same"
    ELSE "differ"

\* ------------------------------------------------------------------ scheduler
\* Finish without the setTimeout of line 100.
FinishWithoutRerun(e, threw) ==
    Then(e, LAMBDA m :
    [m EXCEPT !.isReady = TRUE,
              !.pass = IdlePass,
              !.hist.activePasses = @ - 1,
              !.hist.inPass = 0])

\* Finish with isReady = true in the .then callback instead of .finally: a
\* pass that rejects leaves the engine busy.
FinishOnlyOnSuccess(e, threw) ==
    Then(e, LAMBDA m :
    LET m1 == IF threw THEN LogError(m, "Failed to sync secrets", IdlePass.secretName)
              ELSE m
        arm == m1.hist.inPass >= 2 /\ m1.deferred = 0
    IN [m1 EXCEPT !.isReady = ~threw,
                  !.deferred = IF m1.isPendingSync /\ ~threw THEN @ + 1 ELSE @,
                  !.pass = IdlePass,
                  !.hist.skipped = {m.pass.todo[i] : i \in DOMAIN m.pass.todo} \cap DOMAIN m.cache,
                  !.hist.activePasses = @ - 1,
                  !.hist.inPass = 0,
                  !.hist.armed = IF arm THEN TRUE ELSE @,
                  !.hist.extra = IF arm THEN 0 ELSE @])

\* Finish that clears isPendingSync when it sets the timer of line 100.
FinishClearsPending(e, threw) ==
    Then(e, LAMBDA m :
    LET m1 == IF threw THEN LogError(m, "Failed to sync secrets", IdlePass.secretName)
              ELSE m
        arm == m1.hist.inPass >= 2 /\ m1.deferred = 0
    IN [m1 EXCEPT !.isReady = TRUE,
                  !.isPendingSync = FALSE,
                  !.deferred = IF m1.isPendingSync THEN @ + 1 ELSE @,
                  !.pass = IdlePass,
                  !.hist.skipped = {m.pass.todo[i] : i \in DOMAIN m.pass.todo} \cap DOMAIN m.cache,
                  !.hist.activePasses = @ - 1,
                  !.hist.inPass = 0,
                  !.hist.armed = IF arm THEN TRUE ELSE @,
                  !.hist.extra = IF arm THEN 0 ELSE @])

\* The .catch and .finally of syncSecrets, run when _syncSecrets settles.
Finish(e, threw) ==
    Then(e, LAMBDA m :
    LET m1 == IF threw THEN LogError(m, "Failed to sync secrets", IdlePass.secretName)
              ELSE m
        arm == m1.hist.inPass >= 2 /\ m1.deferred = 0
    IN [m1 EXCEPT !.isReady = TRUE,
                  !.deferred = IF m1.isPendingSync THEN @ + 1 ELSE @,
                  !.pass = IdlePass,
                  !.hist.skipped = {m.pass.todo[i] : i \in DOMAIN m.pass.todo} \cap DOMAIN m.cache,
                  !.hist.activePasses = @ - 1,
                  !.hist.quiet = IF @ = "off" THEN "off" ELSE "between",
                  !.hist.inPass = 0,
                  !.hist.armed = IF arm THEN TRUE ELSE @,
                  !.hist.extra = IF arm THEN 0 ELSE @])

RECURSIVE RunLoop(_)

\* createSecretWithConfigMapData with the name and the source-configmap label
\* exchanged.
CreateSecretWithConfigMapDataNamedBySource(e, configMap, data) ==
    Then(e, LAMBDA m :
    LET body == SecretObject(configMap.namespace, configMap.name,
                             configMap.target, configMap.resourceVersion,
                             [k \in DOMAIN data |-> Base64(data[k])])
        op == IF m.pass.existing THEN "replace" ELSE "create"
    IN Issue([m EXCEPT !.pass.pc = "write", !.pass.body = Some(body)],
             op, PairKey(body.namespace, body.name)))

\* createSecretWithConfigMapData up to its cluster call: the body is built and
\* replaceNamespacedSecret or createNamespacedSecret is issued.
CreateSecretWithConfigMapData(e, configMap, data) ==
    Then(e, LAMBDA m :
    LET body == SecretObject(configMap.namespace, configMap.target,
                             configMap.name, configMap.resourceVersion,
                             [k \in DOMAIN data |-> Base64(data[k])])
        op == IF m.pass.existing THEN "replace" ELSE "create"
    IN Issue([m EXCEPT !.pass.pc = "write", !.pass.body = Some(body)],
             op, PairKey(body.namespace, body.name)))

\* What the catch of the create or of the update branch logs.
FailedMessage(m) ==
    IF m.pass.existing THEN "Failed to update secret" ELSE "Failed to create secret"

\* A throw inside createSecretForConfigMap: the catch logs and the loop goes on.
MaterializeThrows(e) ==
    Then(e, LAMBDA m :
    RunLoop(LogError([m EXCEPT !.pass.pc = "run"], FailedMessage(m), m.pass.secretName)))

\* extractConfigFromEncryptedEnv, then createSecretWithConfigMapData.
ExtractAndCreate(e, configMap, decryptionSecret) ==
    Then(e, LAMBDA m :
    LET m1 == [m EXCEPT !.hist.parsed = @ \cup
                   {[configMap |-> configMap, data |-> configMap.content,
                     decryptionSecret |-> decryptionSecret]}]
    IN IF configMap.content = "bad"
       THEN MaterializeThrows(Aborted(m1, "DecryptionFailed"))
       ELSE CreateSecretWithConfigMapData(m1, configMap,
                ParseEnvContent(configMap.content, decryptionSecret)))

\* The source key of a ConfigMap: its source-key label, '.env' by default.
SourceKey(configMap) ==
    IF configMap.sourceKey = Undefined THEN ".env" ELSE configMap.sourceKey[1]

\* KeySecretKey that does not look at the decryption-secret-key label.
KeySecretKeyIgnoresLabel(configMap) == "CONFIG_DECRYPTION_KEY"

\* The entry read from the decryption Secret: the decryption-secret-key label,
\* CONFIG_DECRYPTION_KEY by default.
KeySecretKey(configMap) ==
    IF configMap.decryptionSecretKey = Undefined THEN "CONFIG_DECRYPTION_KEY"
    ELSE configMap.decryptionSecretKey[1]

\* createSecretForConfigMap without the test of lines 144-146.
CreateSecretForConfigMapWithoutSourceCheck(e, existing) ==
    Then(e, LAMBDA m :
    LET m1 == [m EXCEPT !.pass.existing = existing, !.pass.stale = FALSE]
    IN IF m.pass.configMap = Undefined
       THEN MaterializeThrows(m1)
       ELSE LET configMap == m.pass.configMap[1]
            IN IF configMap.decryptionSecret # Undefined
               THEN Issue([m1 EXCEPT !.pass.pc = "read"], "read",
                          PairKey(configMap.namespace, configMap.decryptionSecret[1]))
               ELSE ExtractAndCreate(m1, configMap, Undefined))

\* createSecretForConfigMap up to its first cluster call.  The caller has
\* evaluated this.cache[secretName] (the object the result is assigned to)
\* before the call: pass.stale records that the cache has since been given
\* another object for the key.
CreateSecretForConfigMap(e, existing) ==
    Then(e, LAMBDA m :
    LET m1 == [m EXCEPT !.pass.existing = existing, !.pass.stale = FALSE]
    IN IF m.pass.configMap = Undefined
       THEN MaterializeThrows(m1)
       ELSE LET configMap == m.pass.configMap[1]
            IN IF SourceKey(configMap) \notin configMap.data
               THEN MaterializeThrows(Aborted(m1, "MissingSourceKey"))
               ELSE IF configMap.decryptionSecret # Undefined
               THEN Issue([m1 EXCEPT !.pass.pc = "read"], "read",
                          PairKey(configMap.namespace, configMap.decryptionSecret[1]))
               ELSE ExtractAndCreate(m1, configMap, Undefined))

\* CreateOrUpdate without the comparison of line 130: a Secret with a
\* ConfigMap is always replaced.
CreateOrUpdateAlways(e) ==
    Then(e, LAMBDA m :
    IF m.pass.secret = Undefined
    THEN CreateSecretForConfigMap(m, FALSE)
    ELSE IF m.pass.configMap = Undefined
    THEN Finish(m, TRUE)
    ELSE CreateSecretForConfigMap(m, TRUE))

\* CreateOrUpdate that passes no existing Secret at line 133: the update
\* branch creates.
CreateOrUpdateCreatesAgain(e) ==
    Then(e, LAMBDA m :
    IF m.pass.secret = Undefined
    THEN CreateSecretForConfigMap(m, FALSE)
    ELSE IF m.pass.configMap = Undefined
    THEN Finish(m, TRUE)
    ELSE IF m.pass.secret[1].sourceConfigMapVersion # m.pass.configMap[1].resourceVersion
    THEN CreateSecretForConfigMap(m, FALSE)
    ELSE RunLoop(m))

\* Lines 123-137 of _syncSecrets, with the secret and configMap read at line 106.
CreateOrUpdate(e) ==
    Then(e, LAMBDA m :
    IF m.pass.secret = Undefined
    THEN CreateSecretForConfigMap(m, FALSE)
    ELSE IF m.pass.configMap = Undefined
    THEN Finish(m, TRUE)   \* configMap!.metadata of undefined: a TypeError, outside any try
    ELSE IF m.pass.secret[1].sourceConfigMapVersion # m.pass.configMap[1].resourceVersion
    THEN CreateSecretForConfigMap(m, TRUE)
    ELSE RunLoop(m))

\* The for-in loop of _syncSecrets from its next key to the next cluster call
\* or to the end of the pass.  for-in visits the keys the object had when the
\* loop began, and skips a key deleted before its turn.
RunLoop(e) ==
    Then(e, LAMBDA m :
    IF m.pass.todo = <<>>
    THEN Finish(m, FALSE)
    ELSE LET secretName == Head(m.pass.todo)
             m1 == [m EXCEPT !.pass.todo = Tail(@), !.pass.pc = "run"]
         IN IF secretName \notin DOMAIN m.cache
            THEN RunLoop(m1)
            ELSE LET secret == m.cache[secretName].secret
                     configMap == m.cache[secretName].configMap
                     m2 == [m1 EXCEPT !.pass.secretName = secretName,
                                      !.pass.secret = secret,
                                      !.pass.configMap = configMap,
                                      !.pass.body = Undefined,
                                      !.pass.calls = {},
                                      !.hist.visited = @ \cup
                                          {[key |-> secretName,
                                            halves |-> Halves(secret, configMap)]}]
                 IN IF secret = Undefined /\ configMap = Undefined
                    THEN RunLoop(DeleteEntry(m2, secretName))
                    ELSE IF configMap = Undefined
                    THEN Issue([m2 EXCEPT !.pass.pc = "delete"], "delete",
                               PairKey(secret[1].namespace, secret[1].name))
                    ELSE CreateOrUpdate(m2))

\* syncSecrets without line 88: isReady stays true while the pass runs.
SyncSecretsStaysReady(e, rerun) ==
    Then(e, LAMBDA m :
    IF ~m.isReady
    THEN [m EXCEPT !.isPendingSync = TRUE, !.hist.owed = TRUE,
                   !.hist.inPass = Min(@ + 1, 2)]
    ELSE RunLoop([m EXCEPT
             !.isPendingSync = FALSE,
             !.pass = [IdlePass EXCEPT !.pc = "run", !.todo = m.cacheOrder],
             !.hist = [@ EXCEPT !.activePasses = @ + 1, !.owed = FALSE, !.inPass = 0,
                                !.started = IF rerun THEN "rerun" ELSE "trigger"]]))

\* syncSecrets without the guard of lines 83-86: every call starts a pass.
SyncSecretsUnguarded(e, rerun) ==
    Then(e, LAMBDA m :
    RunLoop([m EXCEPT
        !.isReady = FALSE,
        !.isPendingSync = FALSE,
        !.pass = [IdlePass EXCEPT !.pc = "run", !.todo = m.cacheOrder],
        !.hist = [@ EXCEPT !.activePasses = @ + 1, !.owed = FALSE, !.inPass = 0,
                           !.started = IF rerun THEN "rerun" ELSE "trigger"]]))

\* syncSecrets without line 89: isPendingSync is never cleared.
SyncSecretsKeepsPending(e, rerun) ==
    Then(e, LAMBDA m :
    LET m0 == IF rerun THEN m ELSE [m EXCEPT !.hist.armed = FALSE, !.hist.extra = 0]
    IN IF ~m0.isReady
       THEN [m0 EXCEPT !.isPendingSync = TRUE,
                       !.hist.owed = TRUE,
                       !.hist.inPass = Min(@ + 1, 2)]
       ELSE RunLoop([m0 EXCEPT
                !.isReady = FALSE,
                !.pass = [IdlePass EXCEPT !.pc = "run", !.todo = m0.cacheOrder],
                !.hist = [@ EXCEPT !.activePasses = @ + 1, !.owed = FALSE, !.inPass = 0,
                                   !.started = IF rerun THEN "rerun" ELSE "trigger",
                                   !.extra = IF m0.hist.armed THEN Min(@ + 1, 2) ELSE @]]))

\* Manager.syncSecrets. rerun: the call is the setTimeout callback of line 100.
SyncSecrets(e, rerun) ==
    Then(e, LAMBDA m :
    LET m0 == IF rerun THEN m ELSE [m EXCEPT !.hist.armed = FALSE, !.hist.extra = 0]
    IN IF ~m0.isReady
       THEN [m0 EXCEPT !.isPendingSync = TRUE,
                       !.hist.owed = TRUE,
                       !.hist.inPass = Min(@ + 1, 2)]
       ELSE RunLoop([m0 EXCEPT
                !.isReady = FALSE,
                !.isPendingSync = FALSE,
                !.pass = [IdlePass EXCEPT !.pc = "run", !.todo = m0.cacheOrder],
                !.hist = [@ EXCEPT !.activePasses = @ + 1, !.owed = FALSE, !.inPass = 0,
                                   !.started = IF rerun THEN "rerun" ELSE "trigger",
                                   !.quiet = IF @ = "between" THEN "second" ELSE "first",
                                   !.extra = IF m0.hist.armed THEN Min(@ + 1, 2) ELSE @]]))

\* AfterDelete without line 117: the entry stays in the cache.
AfterDeleteKeepsEntry(e, ok) ==
    Then(e, LAMBDA m :
    LET key == m.pass.secretName
        m1 == IF ok
              THEN [m EXCEPT !.hist.deleted = @ \cup {m.pass.secret[1]}]
              ELSE LogError(m, "Failed to delete secret", key)
    IN CreateOrUpdate([m1 EXCEPT !.pass.pc = "run"]))

\* AfterDelete that goes on to the create branch with the entry as the cache
\* has it after the call.
AfterDeleteThenCreates(e, ok) ==
    Then(e, LAMBDA m :
    LET key == m.pass.secretName
        m1 == IF ok
              THEN [m EXCEPT !.hist.deleted = @ \cup {m.pass.secret[1]},
                             !.cache[key].secret = Undefined]
              ELSE LogError(m, "Failed to delete secret", key)
        m2 == [m1 EXCEPT !.pass.pc = "run",
                         !.pass.secret = Undefined,
                         !.pass.configMap = m1.cache[key].configMap]
    IN IF m2.pass.configMap = Undefined
       THEN RunLoop(m2)
       ELSE CreateOrUpdate(m2))

\* After the delete call of the orphan branch: lines 117-121, then the rest of
\* the loop body.
AfterDelete(e, ok) ==
    Then(e, LAMBDA m :
    LET key == m.pass.secretName
        m1 == IF ok
              THEN [DeleteEntry(m, key) EXCEPT !.hist.deleted = @ \cup {m.pass.secret[1]},
                                               !.hist.created = @ \ {key}]
              ELSE LogError(Threw(m, "delete", key), "Failed to delete secret", key)
    IN CreateOrUpdate([m1 EXCEPT !.pass.pc = "run"]))

\* AfterRead without the test of lines 167-169: a Secret without the entry
\* gives no decryption key.
AfterReadWithoutKeyCheck(e, ok) ==
    Then(e, LAMBDA m :
    LET configMap == m.pass.configMap[1]
        secret == KeySecrets[configMap.decryptionSecret[1]]
    IN IF ~ok
       THEN MaterializeThrows(Threw(m, "read", PairKey(configMap.namespace,
                                                       configMap.decryptionSecret[1])))
       ELSE IF KeySecretKey(configMap) \notin DOMAIN secret
       THEN ExtractAndCreate(m, configMap, Undefined)
       ELSE ExtractAndCreate(m, configMap, Some(Base64Decode(secret[KeySecretKey(configMap)]))))

\* After readNamespacedSecret: the rest of getDecryptionSecret, then the rest
\* of createSecretForConfigMap.
AfterRead(e, ok) ==
    Then(e, LAMBDA m :
    LET configMap == m.pass.configMap[1]
        secret == KeySecrets[configMap.decryptionSecret[1]]
    IN IF ~ok
       THEN MaterializeThrows(Threw(m, "read", PairKey(configMap.namespace,
                                                       configMap.decryptionSecret[1])))
       ELSE IF KeySecretKey(configMap) \notin DOMAIN secret
       THEN MaterializeThrows(Aborted(m, "MissingDecryptionKey"))
       ELSE ExtractAndCreate(m, configMap, Some(Base64Decode(secret[KeySecretKey(configMap)]))))

\* AfterWrite whose catch clears the Secret half of the entry.
AfterWriteFailureForgetsSecret(e, ok) ==
    Then(e, LAMBDA m :
    LET key == m.pass.secretName
    IN IF ~ok
       THEN MaterializeThrows(
                [Threw(m, IF m.pass.existing THEN "replace" ELSE "create", key)
                    EXCEPT !.cache[key].secret = Undefined])
       ELSE IF m.pass.stale
       THEN RunLoop([m EXCEPT !.pass.pc = "run",
                              !.hist.returned = @ \cup {m.pass.body[1]}])
       ELSE RunLoop([m EXCEPT !.pass.pc = "run",
                              !.cache[key].secret = m.pass.body,
                              !.hist.written = @ \cup {key},
                              !.hist.returned = @ \cup {m.pass.body[1]}]))

\* After the create or replace call: the returned Secret is assigned to the
\* secret field of the object read from the cache before the call.
AfterWrite(e, ok) ==
    Then(e, LAMBDA m :
    LET key == m.pass.secretName
    IN IF ~ok
       THEN MaterializeThrows(Threw(m, IF m.pass.existing THEN "replace" ELSE "create", key))
       ELSE IF m.pass.stale
       THEN RunLoop([m EXCEPT !.pass.pc = "run",
                              !.hist.created = IF m.pass.existing THEN @ ELSE @ \cup {key},
                              !.hist.returned = @ \cup {m.pass.body[1]}])
       ELSE RunLoop([m EXCEPT !.pass.pc = "run",
                              !.cache[key].secret = m.pass.body,
                              !.hist.written = @ \cup {key},
                              !.hist.created = IF m.pass.existing THEN @ ELSE @ \cup {key},
                              !.hist.returned = @ \cup {m.pass.body[1]}]))

\* ------------------------------------------------------------------ watch callbacks
\* this.cache[secretName] = { ...this.cache[secretName], <half>: value }
SetHalf(e, key, entry) ==
    Then(e, LAMBDA m :
    [m EXCEPT !.cache = Put(@, key, entry),
              !.cacheOrder = IF key \in DOMAIN m.cache THEN @ ELSE Append(@, key),
              !.pass.stale = @ \/ (m.pass.pc \in {"read", "write"} /\ m.pass.secretName = key)])

\* The callback without the DELETED case of lines 40-44: every event stores
\* the ConfigMap.
OnConfigMapEventStoresDeleted(e, type, configMap) ==
    Then(e, LAMBDA m :
    LET secretName == PairKey(configMap.namespace, configMap.target)
        entry == [Spread(m.cache, secretName) EXCEPT !.configMap = Some(configMap)]
    IN SyncSecrets(SetHalf(m, secretName, entry), FALSE))

\* The event callback of watchConfigMaps.
OnConfigMapEvent(e, type, configMap) ==
    Then(e, LAMBDA m :
    LET secretName == PairKey(configMap.namespace, configMap.target)
        entry == IF type = "DELETED"
                 THEN [Spread(m.cache, secretName) EXCEPT !.configMap = Undefined]
                 ELSE [Spread(m.cache, secretName) EXCEPT !.configMap = Some(configMap)]
        m1 == [m EXCEPT !.hist.events = @ \cup
                  {[kind |-> "ConfigMap", type |-> type, key |-> secretName]},
                        !.hist.quiet = "off"]
    IN SyncSecrets(SetHalf(m1, secretName, entry), FALSE))

\* The event callback of watchSecrets without the spread of lines 68 and 70:
\* the entry is replaced by one that has the Secret half only.
OnSecretEventWithoutSpread(e, type, secret) ==
    Then(e, LAMBDA m :
    LET secretName == PairKey(secret.namespace, secret.name)
        entry == IF type = "DELETED"
                 THEN EmptyEntry
                 ELSE [EmptyEntry EXCEPT !.secret = Some(secret)]
        m1 == [m EXCEPT !.hist.events = @ \cup
                  {[kind |-> "Secret", type |-> type, key |-> secretName]}]
    IN SyncSecrets(SetHalf(m1, secretName, entry), FALSE))

\* The event callback of watchSecrets.
OnSecretEvent(e, type, secret) ==
    Then(e, LAMBDA m :
    LET secretName == PairKey(secret.namespace, secret.name)
        entry == IF type = "DELETED"
                 THEN [Spread(m.cache, secretName) EXCEPT !.secret = Undefined]
                 ELSE [Spread(m.cache, secretName) EXCEPT !.secret = Some(secret)]
        m1 == [m EXCEPT !.hist.events = @ \cup
                  {[kind |-> "Secret", type |-> type, key |-> secretName]},
                        !.hist.created = IF type = "DELETED" THEN @ \ {secretName} ELSE @,
                        !.hist.quiet = "off"]
    IN SyncSecrets(SetHalf(m1, secretName, entry), FALSE))

\* ------------------------------------------------------------------ cluster
EmptyMap == [x \in {} |-> x]

RECURSIVE Orderings(_)
\* The sequences that list each element of S once.
Orderings(S) ==
    IF S = {} THEN {<<>>}
    ELSE UNION {{<<x>> \o s : s \in Orderings(S \ {x})} : x \in S}

\* What a watch sends first: an ADDED event for every object that exists.
Snapshots(objects) ==
    {[i \in DOMAIN o |-> [type |-> "ADDED", object |-> objects[o[i]]]] :
        o \in Orderings(DOMAIN objects)}

Notify(queue, watching, type, object) ==
    IF watching THEN Append(queue, [type |-> type, object |-> object]) ELSE queue

\* A user creates or updates a labelled ConfigMap.
ApplyConfigMap(namespace, name, target, template, max) ==
    LET id == <<namespace, name>>
        object == ConfigMapObject(namespace, name, target, changes + 1, template)
    IN /\ changes < max
       /\ changes' = changes + 1
       /\ configMaps' = Put(configMaps, id, object)
       /\ cmEvents' = Notify(cmEvents, cmWatching,
                             IF id \in DOMAIN configMaps THEN "MODIFIED" ELSE "ADDED", object)
       /\ hist' = NewStep(hist)
       /\ UNCHANGED <<engineVars, secrets, failures, cmWatching, secWatching, secEvents,
                   watchRetry, watchErrors>>

\* A user deletes a labelled ConfigMap.
DeleteConfigMap(namespace, name, max) ==
    LET id == <<namespace, name>>
    IN /\ changes < max
       /\ id \in DOMAIN configMaps
       /\ changes' = changes + 1
       /\ configMaps' = Remove(configMaps, id)
       /\ cmEvents' = Notify(cmEvents, cmWatching, "DELETED", configMaps[id])
       /\ hist' = NewStep(hist)
       /\ UNCHANGED <<engineVars, secrets, failures, cmWatching, secWatching, secEvents,
                   watchRetry, watchErrors>>

\* ------------------------------------------------------------------ Manager.start
\* await this.watchConfigMaps(): the watch is registered.
RegisterConfigMapWatch ==
    /\ startPc = "watchConfigMaps"
    /\ startPc' = "watchSecrets"
    /\ cmWatching' = TRUE
    /\ cmEvents' \in Snapshots(configMaps)
    /\ hist' = NewStep(hist)
    /\ UNCHANGED <<isReady, isPendingSync, cache, cacheOrder, pass, deferred,
                   configMaps, secrets, changes, failures, secWatching, secEvents,
                   watchRetry, watchErrors>>

\* await this.watchSecrets(): the watch is registered.
RegisterSecretWatch ==
    /\ startPc = "watchSecrets"
    /\ startPc' = "delay"
    /\ secWatching' = TRUE
    /\ secEvents' \in Snapshots(secrets)
    /\ hist' = NewStep(hist)
    /\ UNCHANGED <<isReady, isPendingSync, cache, cacheOrder, pass, deferred,
                   configMaps, secrets, changes, failures, cmWatching, cmEvents,
                   watchRetry, watchErrors>>

\* The 5 s have passed: isReady = true, syncSecrets(), setInterval.
DelayElapsed ==
    /\ startPc = "delay"
    /\ startPc' = "started"
    /\ Commit(SyncSecrets([Engine EXCEPT !.isReady = TRUE], FALSE))
    /\ UNCHANGED clusterVars

\* ------------------------------------------------------------------ triggers
\* The setInterval callback.
TimerTick ==
    /\ startPc = "started"
    /\ deferred < MaxDeferred
    /\ Commit(SyncSecrets(Engine, FALSE))
    /\ UNCHANGED <<startPc, clusterVars>>

\* The setTimeout callback of line 100.
DeferredFire ==
    /\ deferred > 0
    /\ Commit(SyncSecrets([Engine EXCEPT !.deferred = @ - 1], TRUE))
    /\ UNCHANGED <<startPc, clusterVars>>

\* A direct call of the public syncSecrets.
CallSyncSecrets ==
    /\ deferred < MaxDeferred
    /\ Commit(SyncSecrets(Engine, FALSE))
    /\ UNCHANGED <<startPc, clusterVars>>

DeliverConfigMapEvent ==
    /\ cmEvents # <<>>
    /\ cmEvents' = Tail(cmEvents)
    /\ Commit(OnConfigMapEvent(Engine, Head(cmEvents).type, Head(cmEvents).object))
    /\ UNCHANGED <<startPc, configMaps, secrets, changes, failures, cmWatching,
                   secWatching, secEvents,
                   watchRetry, watchErrors>>

DeliverSecretEvent ==
    /\ secEvents # <<>>
    /\ secEvents' = Tail(secEvents)
    /\ Commit(OnSecretEvent(Engine, Head(secEvents).type, Head(secEvents).object))
    /\ UNCHANGED <<startPc, configMaps, secrets, changes, failures, cmWatching,
                   secWatching, cmEvents,
                   watchRetry, watchErrors>>

\* ------------------------------------------------------------------ cluster calls
\* A call fails for a reason of its own (refused) or for a transient one.
Fails(refused, max) ==
    \/ /\ refused
       /\ UNCHANGED failures
    \/ /\ ~refused
       /\ failures < max
       /\ failures' = failures + 1

CallKey == PairKey(pass.secret[1].namespace, pass.secret[1].name)
BodyKey == PairKey(pass.body[1].namespace, pass.body[1].name)

\* deleteNamespacedSecret returns.
DeleteSecretSucceeds ==
    /\ pass.pc = "delete"
    /\ CallKey \in DOMAIN secrets
    /\ secrets' = Remove(secrets, CallKey)
    /\ secEvents' = Notify(secEvents, secWatching, "DELETED", secrets[CallKey])
    /\ Commit(AfterDelete(Engine, TRUE))
    /\ UNCHANGED <<startPc, configMaps, changes, failures, cmWatching, secWatching, cmEvents,
                   watchRetry, watchErrors>>

\* deleteNamespacedSecret throws: the Secret does not exist, or the call failed.
DeleteSecretFails(max) ==
    /\ pass.pc = "delete"
    /\ Fails(CallKey \notin DOMAIN secrets, max)
    /\ Commit(AfterDelete(Engine, FALSE))
    /\ UNCHANGED <<startPc, configMaps, secrets, changes, cmWatching, secWatching,
                   cmEvents, secEvents,
                   watchRetry, watchErrors>>

\* readNamespacedSecret returns the decryption Secret.
ReadSecretSucceeds ==
    /\ pass.pc = "read"
    /\ pass.configMap[1].decryptionSecret[1] \in DOMAIN KeySecrets
    /\ Commit(AfterRead(Engine, TRUE))
    /\ UNCHANGED <<startPc, clusterVars>>

\* readNamespacedSecret throws.
ReadSecretFails(max) ==
    /\ pass.pc = "read"
    /\ Fails(pass.configMap[1].decryptionSecret[1] \notin DOMAIN KeySecrets, max)
    /\ Commit(AfterRead(Engine, FALSE))
    /\ UNCHANGED <<startPc, configMaps, secrets, changes, cmWatching, secWatching,
                   cmEvents, secEvents,
                   watchRetry, watchErrors>>

\* createNamespacedSecret refuses a Secret that exists, replaceNamespacedSecret
\* one that does not.
WriteRefused == pass.existing <=> (BodyKey \notin DOMAIN secrets)

\* createNamespacedSecret or replaceNamespacedSecret returns the Secret.
WriteSecretSucceeds ==
    /\ pass.pc = "write"
    /\ ~WriteRefused
    /\ secrets' = Put(secrets, BodyKey, pass.body[1])
    /\ secEvents' = Notify(secEvents, secWatching,
                           IF pass.existing THEN "MODIFIED" ELSE "ADDED", pass.body[1])
    /\ Commit(AfterWrite(Engine, TRUE))
    /\ UNCHANGED <<startPc, configMaps, changes, failures, cmWatching, secWatching, cmEvents,
                   watchRetry, watchErrors>>

\* createNamespacedSecret or replaceNamespacedSecret throws.
WriteSecretFails(max) ==
    /\ pass.pc = "write"
    /\ Fails(WriteRefused, max)
    /\ Commit(AfterWrite(Engine, FALSE))
    /\ UNCHANGED <<startPc, configMaps, secrets, changes, cmWatching, secWatching,
                   cmEvents, secEvents,
                   watchRetry, watchErrors>>

\* ------------------------------------------------------------------ specifications
\* Secrets left by an earlier run of the controller.
Leftover(names) ==
    {[k \in (Namespaces \X K) |-> SecretObject(k[1], k[2], "a", 0, [e \in {"APP_KEY"} |-> Base64("ok")])] : K \in SUBSET names}

LeftoverNames == {"s1"}

InitWith(names) ==
    /\ startPc = "watchConfigMaps"
    /\ isReady = FALSE
    /\ isPendingSync = TRUE
    /\ cache = EmptyMap
    /\ cacheOrder = <<>>
    /\ pass = IdlePass
    /\ deferred = 0
    /\ configMaps = EmptyMap
    /\ secrets \in Leftover(names)
    /\ changes = 0
    /\ failures = 0
    /\ cmWatching = FALSE
    /\ secWatching = FALSE
    /\ cmEvents = <<>>
    /\ secEvents = <<>>
    /\ watchRetry = [ConfigMap |-> 0, Secret |-> 0]
    /\ watchErrors = 0
    /\ hist = NoHistory

Init == InitWith(LeftoverNames)

User ==
    \/ \E ns \in Namespaces, a \in Applies : ApplyConfigMap(ns, a[1], a[2], a[3], MaxChanges)
    \/ \E ns \in Namespaces, n \in ConfigMapNames : DeleteConfigMap(ns, n, MaxChanges)

Calls ==
    \/ DeleteSecretSucceeds
    \/ DeleteSecretFails(MaxFailures)
    \/ ReadSecretSucceeds
    \/ ReadSecretFails(MaxFailures)
    \/ WriteSecretSucceeds
    \/ WriteSecretFails(MaxFailures)

Next ==
    \/ User
    \/ RegisterConfigMapWatch
    \/ RegisterSecretWatch
    \/ DelayElapsed
    \/ TimerTick
    \/ DeferredFire
    \/ CallSyncSecrets
    \/ DeliverConfigMapEvent
    \/ DeliverSecretEvent
    \/ Calls

Spec == Init /\ [][Next]_vars

\* The same engine with one ConfigMap for each Secret name, under the fairness
\* the event loop gives: a registered watch delivers its events, a timer that
\* was set fires, and a cluster call returns or throws.  The initial snapshots
\* of both watches arrive within the 5 s of Manager.start.
LiveInit == InitWith(LeftoverNames)

LiveDelayElapsed ==
    /\ cmEvents = <<>>
    /\ secEvents = <<>>
    /\ DelayElapsed

LiveUser ==
    \/ \E ns \in Namespaces, a \in LiveApplies :
          ApplyConfigMap(ns, a[1], a[2], a[3], LiveMaxChanges)
    \/ \E ns \in Namespaces, a \in LiveApplies : DeleteConfigMap(ns, a[1], LiveMaxChanges)

LiveCalls ==
    \/ DeleteSecretSucceeds
    \/ DeleteSecretFails(LiveMaxFailures)
    \/ WriteSecretSucceeds
    \/ WriteSecretFails(LiveMaxFailures)

LiveNext ==
    \/ LiveUser
    \/ RegisterConfigMapWatch
    \/ RegisterSecretWatch
    \/ LiveDelayElapsed
    \/ TimerTick
    \/ DeferredFire
    \/ CallSyncSecrets
    \/ DeliverConfigMapEvent
    \/ DeliverSecretEvent
    \/ LiveCalls

Fairness ==
    /\ WF_vars(RegisterConfigMapWatch \/ RegisterSecretWatch \/ LiveDelayElapsed)
    /\ WF_vars(TimerTick)
    /\ WF_vars(DeferredFire)
    /\ WF_vars(DeliverConfigMapEvent)
    /\ WF_vars(DeliverSecretEvent)
    /\ WF_vars(LiveCalls)

LiveSpec == LiveInit /\ [][LiveNext]_vars /\ Fairness

\* ------------------------------------------------------------------ watch errors
\* The error callback without its setTimeout.
OnWatchErrorWithoutRetry(retry, kind) == retry

\* The error callback of a watch (lines 49-52, 75-78): the error is logged and
\* the watch method of the same kind is set to run after 1 s.
OnWatchError(retry, kind) == [retry EXCEPT ![kind] = @ + 1]

WatchErrorLogged(msg) ==
    [NewStep(hist) EXCEPT !.errors = {[msg |-> msg, key |-> IdlePass.secretName]}]

\* The connection of the ConfigMap watch is lost: the events it had not
\* delivered are lost with it, and the error callback runs.
ConfigMapWatchError(max) ==
    /\ cmWatching
    /\ watchErrors < max
    /\ watchErrors' = watchErrors + 1
    /\ cmWatching' = FALSE
    /\ cmEvents' = <<>>
    /\ watchRetry' = OnWatchError(watchRetry, "ConfigMap")
    /\ hist' = WatchErrorLogged("Failed to watch ConfigMaps")
    /\ UNCHANGED <<engineVars, configMaps, secrets, changes, failures,
                   secWatching, secEvents>>

\* The connection of the Secret watch is lost.
SecretWatchError(max) ==
    /\ secWatching
    /\ watchErrors < max
    /\ watchErrors' = watchErrors + 1
    /\ secWatching' = FALSE
    /\ secEvents' = <<>>
    /\ watchRetry' = OnWatchError(watchRetry, "Secret")
    /\ hist' = WatchErrorLogged("Failed to watch Secrets")
    /\ UNCHANGED <<engineVars, configMaps, secrets, changes, failures,
                   cmWatching, cmEvents>>

\* The setTimeout callback of line 51: watchConfigMaps() registers the watch
\* again, and the cluster sends an ADDED event for every ConfigMap it has.
RetryConfigMapWatch ==
    /\ watchRetry.ConfigMap > 0
    /\ watchRetry' = [watchRetry EXCEPT !.ConfigMap = @ - 1]
    /\ cmWatching' = TRUE
    /\ cmEvents' \in {cmEvents \o s : s \in Snapshots(configMaps)}
    /\ hist' = NewStep(hist)
    /\ UNCHANGED <<engineVars, configMaps, secrets, changes, failures,
                   secWatching, secEvents, watchErrors>>

\* The setTimeout callback of line 77.
RetrySecretWatch ==
    /\ watchRetry.Secret > 0
    /\ watchRetry' = [watchRetry EXCEPT !.Secret = @ - 1]
    /\ secWatching' = TRUE
    /\ secEvents' \in {secEvents \o s : s \in Snapshots(secrets)}
    /\ hist' = NewStep(hist)
    /\ UNCHANGED <<engineVars, configMaps, secrets, changes, failures,
                   cmWatching, cmEvents, watchErrors>>

\* The engine of LiveSpec with watches that lose their connection.
WatchErrors ==
    \/ ConfigMapWatchError(MaxWatchErrors)
    \/ SecretWatchError(MaxWatchErrors)

WatchRetries ==
    \/ RetryConfigMapWatch
    \/ RetrySecretWatch

WatchNext ==
    \/ LiveNext
    \/ WatchErrors
    \/ WatchRetries

WatchSpec ==
    LiveInit /\ [][WatchNext]_vars /\ Fairness /\ WF_vars(WatchRetries)

\* The engine of LiveSpec with ConfigMaps whose materialization fails: one
\* whose decryption Secret lacks the requested entry, one whose content the
\* parse function rejects after the read of the decryption Secret, and one
\* without data under its source key.
ErrorApplies == { <<"a", "s1", BadEncryptedLabels>>, <<"b", "s2", MissingKeyLabels>>,
                  <<"b", "s2", WrongSourceLabels>> }

ErrorUser ==
    \E ns \in Namespaces, a \in ErrorApplies :
        ApplyConfigMap(ns, a[1], a[2], a[3], LiveMaxChanges)

ErrorCalls ==
    \/ ReadSecretSucceeds
    \/ ReadSecretFails(LiveMaxFailures)

ErrorNext ==
    \/ LiveNext
    \/ ErrorUser
    \/ ErrorCalls

ErrorSpec ==
    LiveInit /\ [][ErrorNext]_vars /\ Fairness /\ WF_vars(ErrorCalls)

\* The engine started on a cluster in which two ConfigMaps, a and b, carry
\* the same target-secret label s1; the user makes one more change.
SharedMaxChanges == 3

SharedConfigMaps ==
    [id \in {<<"default", "a">>, <<"default", "b">>} |->
        ConfigMapObject(id[1], id[2], "s1", IF id[2] = "a" THEN 1 ELSE 2, PlainLabels)]

SharedInit ==
    /\ startPc = "watchConfigMaps"
    /\ isReady = FALSE
    /\ isPendingSync = TRUE
    /\ cache = EmptyMap
    /\ cacheOrder = <<>>
    /\ pass = IdlePass
    /\ deferred = 0
    /\ configMaps = SharedConfigMaps
    /\ secrets = EmptyMap
    /\ changes = 2
    /\ failures = 0
    /\ cmWatching = FALSE
    /\ secWatching = FALSE
    /\ cmEvents = <<>>
    /\ secEvents = <<>>
    /\ watchRetry = [ConfigMap |-> 0, Secret |-> 0]
    /\ watchErrors = 0
    /\ hist = NoHistory

SharedUser ==
    \/ \E ns \in Namespaces, a \in Applies :
          ApplyConfigMap(ns, a[1], a[2], a[3], SharedMaxChanges)
    \/ \E ns \in Namespaces, n \in ConfigMapNames : DeleteConfigMap(ns, n, SharedMaxChanges)

SharedNext ==
    \/ SharedUser
    \/ RegisterConfigMapWatch
    \/ RegisterSecretWatch
    \/ DelayElapsed
    \/ TimerTick
    \/ DeferredFire
    \/ CallSyncSecrets
    \/ DeliverConfigMapEvent
    \/ DeliverSecretEvent
    \/ Calls

SharedSpec == SharedInit /\ [][SharedNext]_vars

\* ================================================================== properties
\* The cache key, and the cluster name, of the Secret a ConfigMap asks for.
TargetKey(configMap) == PairKey(configMap.namespace, configMap.target)

SecretKey(secret) == PairKey(secret.namespace, secret.name)

\* Some ConfigMap of the cluster asks for the Secret k.
Targeted(k) == \E id \in DOMAIN configMaps : TargetKey(configMaps[id]) = k

\* The ConfigMap id has its Secret, generated from its current version.
InSync(id) ==
    /\ TargetKey(configMaps[id]) \in DOMAIN secrets
    /\ secrets[TargetKey(configMaps[id])].sourceConfigMapVersion
           = configMaps[id].resourceVersion

VisitedKeys == {v.key : v \in hist.visited}

IssuedFor(k) == {c.op : c \in {x \in hist.issued : x.key = k}}

\* ------------------------------------------------------------------ C1
\* C1: with watch events delivered, cluster calls failing only finitely often
\* and finitely many ConfigMap changes, from some point on every ConfigMap of
\* the cluster has a Secret of the name its target label gives, in its
\* namespace, whose source-configmap-version label is the ConfigMap's
\* resourceVersion.
C1_EveryConfigMapGetsItsSecret ==
    <>[](\A id \in DOMAIN configMaps : InSync(id))

C3_PassesNeverOverlap ==
    /\ hist.activePasses \in {0, 1}
    /\ (hist.activePasses = 1) <=> (pass.pc # "idle")
    /\ (pass.pc # "idle") => ~isReady
    /\ (hist.started # "no") => (hist.activePasses = 1 \/ isReady)

\* Triggers have arrived while a pass waits for a cluster call.
C3_Witness ==
    /\ pass.pc \in {"delete", "read", "write"}
    /\ hist.inPass >= 1
    /\ hist.activePasses = 1

C5_Trigger == DeliverConfigMapEvent \/ DeliverSecretEvent \/ TimerTick \/ CallSyncSecrets

\* The pass a watch event started reads the event's key after the callback's
\* assignment to the cache: the key is visited or still to be visited, and a
\* visit finds the ConfigMap half (the Secret half) as the event left it.
C5_SeesConfigMapEvent ==
    LET ev == Head(cmEvents)
        k == TargetKey(ev.object)
    IN /\ k \in VisitedKeys' \cup {pass'.todo[i] : i \in DOMAIN pass'.todo}
       /\ \A v \in hist'.visited :
              v.key = k => ((ev.type = "DELETED") <=> (v.halves \in {"none", "secret"}))

C5_SeesSecretEvent ==
    LET ev == Head(secEvents)
        k == SecretKey(ev.object)
    IN /\ k \in VisitedKeys' \cup {pass'.todo[i] : i \in DOMAIN pass'.todo}
       /\ \A v \in hist'.visited :
              v.key = k => ((ev.type = "DELETED") <=> (v.halves \in {"none", "configMap"}))

\* C5: a trigger that arrives while the engine is ready starts a pass in the
\* same step, after the event's assignment to the cache; a trigger that
\* arrives while a pass is in flight leaves a re-run scheduled when that pass
\* completes; and every trigger that did not start a pass is eventually
\* followed by the start of one.
C5_TriggerIsFollowedByPass ==
    /\ [][(isReady /\ C5_Trigger) => hist'.started = "trigger"]_vars
    /\ [][(isReady /\ DeliverConfigMapEvent) => C5_SeesConfigMapEvent]_vars
    /\ [][(isReady /\ DeliverSecretEvent) => C5_SeesSecretEvent]_vars
    /\ [](hist.owed => (isPendingSync /\ (~isReady \/ deferred > 0)))
    /\ (hist.owed ~> ~hist.owed)

\* The re-run scheduled for a trigger that arrived in flight starts its pass.
C5_Witness ==
    /\ hist.started = "rerun"
    /\ startPc = "started"
    /\ hist.visited # {}

\* ------------------------------------------------------------------ C6
\* C6: until both watches are registered and the startup delay has elapsed,
\* no pass has started, no entry has been read by a pass, no cluster call has
\* been issued or is outstanding, no Secret of the cluster has been written or
\* deleted, and nothing is scheduled; the events and triggers received so far
\* have only filled the cache and left isPendingSync set.
C6_NothingBeforeStart ==
    (startPc # "started") =>
        /\ ~isReady
        /\ isPendingSync
        /\ pass = IdlePass
        /\ deferred = 0
        /\ hist.activePasses = 0
        /\ hist.started = "no"
        /\ hist.visited = {} /\ hist.issued = {} /\ hist.removed = {}
        /\ hist.written = {} /\ hist.deleted = {} /\ hist.errors = {}
        /\ secrets \in Leftover(LeftoverNames)

\* During the startup delay, events have filled the cache with an orphan
\* Secret and a ConfigMap without Secret, and a trigger has arrived.
C6_Witness ==
    /\ startPc = "delay"
    /\ hist.owed
    /\ \E k \in DOMAIN cache : Halves(cache[k].secret, cache[k].configMap) = "secret"
    /\ \E k \in DOMAIN cache : Halves(cache[k].secret, cache[k].configMap) = "configMap"

\* ------------------------------------------------------------------ C7
\* C7: a pass that reads an entry with the Secret present and the ConfigMap
\* absent issues, in that step, a delete call for the Secret's namespace and
\* name and waits for it; and in the step in which the delete call succeeds
\* the entry is removed from the cache and the Secret is gone from the cluster.
C7_OrphanIsDeleted ==
    /\ \A v \in hist.visited :
           v.halves = "secret" =>
               /\ pass.pc = "delete"
               /\ pass.secretName = v.key
               /\ [op |-> "delete", key |-> SecretKey(pass.secret[1])] \in hist.issued
               /\ SecretKey(pass.secret[1]) = v.key
    /\ (pass.pc = "delete") => (pass.secret # Undefined /\ pass.configMap = Undefined)
    /\ \A s \in hist.deleted :
           /\ SecretKey(s) \notin DOMAIN cache
           /\ SecretKey(s) \in hist.removed
           /\ SecretKey(s) \notin DOMAIN secrets

\* The delete call for an orphan has succeeded.
C7_Witness ==
    /\ hist.deleted # {}
    /\ hist.removed # {}
    /\ pass.pc = "idle"

\* ------------------------------------------------------------------ C8
\* C8: in the step in which the delete call for an orphan succeeds, the Secret
\* is gone from the cluster and the pass logs no error, then or until it ends.
C8_OrphanDeletedSilently ==
    \A s \in hist.deleted :
        /\ SecretKey(s) \notin DOMAIN secrets
        /\ hist.errors = {}

\* ------------------------------------------------------------------ C9
\* C9: a pass that reads an entry with both halves absent removes the entry
\* from the cache in that step and issues no cluster call for its key.
C9_EmptyEntryIsCollected ==
    \A v \in hist.visited :
        v.halves = "none" =>
            /\ v.key \in hist.removed
            /\ v.key \notin DOMAIN cache
            /\ IssuedFor(v.key) = {}
            /\ pass.secretName # v.key \/ pass.pc \in {"idle", "run"}

\* A pass has read an entry with both halves absent.
C9_Witness ==
    \E v \in hist.visited : v.halves = "none" /\ v.key \in hist.removed

\* ------------------------------------------------------------------ C10
\* C10: a pass that reads an entry whose Secret carries the resourceVersion of
\* its ConfigMap issues no call for the key, does not wait on it, and leaves
\* the entry in the cache with the same two halves; this holds for every pass,
\* whatever started it.
C10_InSyncEntryIsLeftAlone ==
    \A v \in hist.visited :
        v.halves = "same" =>
            /\ IssuedFor(v.key) = {}
            /\ v.key \notin hist.removed \cup hist.written
            /\ v.key \in DOMAIN cache
            /\ Halves(cache[v.key].secret, cache[v.key].configMap) = "same"
            /\ pass.secretName # v.key \/ pass.pc \in {"idle", "run"}

\* A re-run pass has read an entry that is in sync.
C10_Witness ==
    /\ hist.started = "rerun"
    /\ \E v \in hist.visited : v.halves = "same"

\* ------------------------------------------------------------------ C11
\* The Secret createSecretWithConfigMapData builds from the ConfigMap the pass
\* read and the variables parseEnvContent returned for its content.
BodyFor(configMap, parsed) ==
    [namespace |-> configMap.namespace,
     name |-> configMap.target,
     sourceConfigMap |-> configMap.name,
     sourceConfigMapVersion |-> configMap.resourceVersion,
     data |-> [k \in DOMAIN parsed |-> Base64(parsed[k])]]

\* The pass has stopped handling the entry k with an error of materialization.
FailedFor(k) ==
    \E x \in hist.errors :
        x.key = k /\ x.msg \in {"Failed to create secret", "Failed to update secret"}

\* C11: a pass that reads an entry with the ConfigMap present and the Secret
\* absent issues no replace and no delete for it, and unless materialization
\* fails or waits for the decryption Secret it issues a create; the body of
\* every create is named by the ConfigMap's target-secret label, in the
\* ConfigMap's namespace, labelled with the ConfigMap's name and
\* resourceVersion, and holds one base64 entry for each variable the parse
\* function returned.
C11_CreateFromConfigMap ==
    /\ \A v \in hist.visited :
           v.halves = "configMap" =>
               /\ IssuedFor(v.key) \subseteq {"create"}
               /\ \/ "create" \in IssuedFor(v.key) /\ pass.pc = "write" /\ pass.secretName = v.key
                  \/ pass.pc = "read" /\ pass.secretName = v.key
                  \/ FailedFor(v.key)
    /\ (pass.pc = "write" /\ ~pass.existing) =>
           /\ pass.secret = Undefined
           /\ pass.calls \cap {"create", "replace", "delete"} = {"create"}
           /\ BodyKey = pass.secretName
           /\ \E key \in {Undefined, Some("key1"), Some("key2")} :
                  pass.body[1] = BodyFor(pass.configMap[1],
                                         ParseEnvContent(pass.configMap[1].content, key))
    /\ \A c \in hist.issued :
           c.op = "create" =>
               /\ pass.pc = "write" /\ ~pass.existing /\ c.key = BodyKey
               /\ \E p \in hist.parsed :
                      /\ p.configMap = pass.configMap[1]
                      /\ pass.body[1] = BodyFor(p.configMap,
                                                ParseEnvContent(p.data, p.decryptionSecret))

\* A create has been issued for a ConfigMap with a source-key label, after the
\* read of its decryption Secret.
C11_Witness ==
    /\ [op |-> "create", key |-> pass.secretName] \in hist.issued
    /\ pass.configMap # Undefined
    /\ pass.configMap[1].sourceKey # Undefined
    /\ pass.body # Undefined
    /\ DOMAIN pass.body[1].data = {"APP_KEY"}

\* ------------------------------------------------------------------ C12
\* C12: in the step in which a create or replace call returns a Secret, the
\* cache entry of the Secret's key holds that Secret, whatever watch event was
\* processed for the key while the call was outstanding.
C12_CacheHoldsReturnedSecret ==
    \A s \in hist.returned :
        /\ SecretKey(s) \in DOMAIN cache
        /\ cache[SecretKey(s)].secret = Some(s)

\* ------------------------------------------------------------------ C13
\* C13: a pass that reads an entry with both halves present and a version
\* label different from the ConfigMap's resourceVersion issues no create and
\* no delete for it, and unless materialization fails or waits for the
\* decryption Secret it issues a replace; every replace is for the name and
\* namespace of the Secret in the entry and carries the resourceVersion of the
\* ConfigMap the pass read, which is the one in the cache when the replace is
\* issued in the step that read the entry.
C13_ReplaceOnVersionChange ==
    /\ \A v \in hist.visited :
           v.halves = "differ" =>
               /\ IssuedFor(v.key) \subseteq {"replace"}
               /\ \/ /\ "replace" \in IssuedFor(v.key)
                     /\ pass.pc = "write" /\ pass.secretName = v.key
                     /\ pass.body[1].sourceConfigMapVersion
                            = cache[v.key].configMap[1].resourceVersion
                  \/ pass.pc = "read" /\ pass.secretName = v.key
                  \/ FailedFor(v.key)
    /\ (pass.pc = "write" /\ pass.existing) =>
           /\ pass.secret # Undefined
           /\ pass.secret[1].sourceConfigMapVersion # pass.configMap[1].resourceVersion
           /\ pass.calls \cap {"create", "replace", "delete"} = {"replace"}
           /\ BodyKey = SecretKey(pass.secret[1])
           /\ BodyKey = pass.secretName
           /\ pass.body[1].sourceConfigMapVersion = pass.configMap[1].resourceVersion
           /\ pass.body[1].sourceConfigMap = pass.configMap[1].name
    /\ \A c \in hist.issued :
           c.op = "replace" => (pass.pc = "write" /\ pass.existing /\ c.key = BodyKey)

\* A replace has been issued for a Secret the engine generated from an earlier
\* version of the ConfigMap.
C13_Witness ==
    /\ [op |-> "replace", key |-> pass.secretName] \in hist.issued
    /\ pass.secret # Undefined
    /\ pass.secret[1].sourceConfigMapVersion >= 1
    /\ pass.secret[1].sourceConfigMap = pass.configMap[1].name
    /\ pass.configMap[1].resourceVersion > pass.secret[1].sourceConfigMapVersion

\* ------------------------------------------------------------------ C14
\* C14: a pass ends only when the loop has come to every key the cache had
\* when the pass started: no key that is still in the cache is left unvisited
\* because of what happened to another entry.
C14_EveryEntryHandled ==
    hist.skipped = {}

\* ------------------------------------------------------------------ C15
ClusterWrites == {"delete", "create", "replace"}

\* The cluster calls each of the five rules may issue for the entry it handles.
RuleCalls(halves) ==
    CASE halves = "none" -> {}
      [] halves = "secret" -> {"delete"}
      [] halves = "configMap" -> {"create"}
      [] halves = "same" -> {}
      [] halves = "differ" -> {"replace"}

\* C15: for the entry a pass is handling at most one delete, create or replace
\* has been issued; the calls issued for an entry are those of the one rule
\* that matches the halves the pass read; and when the delete call of the
\* orphan rule has returned, successfully or not, the pass issues no create
\* and no replace for that entry.
C15_OneRulePerEntry ==
    /\ Cardinality(pass.calls \cap ClusterWrites) <= 1
    /\ \A v \in hist.visited :
           /\ IssuedFor(v.key) \subseteq RuleCalls(v.halves)
           /\ Cardinality(IssuedFor(v.key)) <= 1
    /\ (pass.pc = "delete") => pass.calls = {"delete"}
    /\ (pass.pc = "write") =>
           pass.calls \cap ClusterWrites = {IF pass.existing THEN "replace" ELSE "create"}
    /\ \A s \in hist.deleted : IssuedFor(SecretKey(s)) = {}
    /\ \A x \in hist.errors : x.msg = "Failed to delete secret" => IssuedFor(x.key) = {}

\* The delete call of the orphan rule has returned for an entry that was
\* given a ConfigMap while the call was outstanding.
C15_Witness ==
    /\ hist.deleted # {}
    /\ hist.lost # {}
    /\ hist.issued = {}

\* ------------------------------------------------------------------ C16
\* C16: no step of a pass deletes from the cache an entry that holds a
\* ConfigMap at that moment; in particular a ConfigMap stored by an ADDED or
\* MODIFIED event while the orphan delete call was outstanding stays in the
\* cache when the call returns.
C16_NoConfigMapDiscarded ==
    hist.lost = {}

\* ------------------------------------------------------------------ C17
\* C17: in the step in which the delete call of the orphan rule fails, the
\* failure is logged, the entry stays in the cache, and the pass does not end
\* with an error of its own: 'Failed to sync secrets' is not logged.
C17_DeleteFailureIsContained ==
    \A x \in hist.errors :
        x.msg = "Failed to delete secret" =>
            /\ x.key \in DOMAIN cache
            /\ x.key \notin hist.removed
            /\ \A y \in hist.errors : y.msg # "Failed to sync secrets"

\* ------------------------------------------------------------------ C18
\* The create or replace call the pass is waiting for throws in this step.
C18_WriteThrows ==
    /\ pass.pc = "write"
    /\ [op |-> IF pass.existing THEN "replace" ELSE "create", key |-> pass.secretName]
           \in hist'.failed

\* C18: the step in which the create or replace call throws leaves the entry
\* of the key as it was, logs the failure for the key, and assigns no Secret;
\* when no watch event has replaced the entry during the call, the entry is
\* still what the pass read (no Secret half for a create, the old Secret with
\* its old version label for a replace), so that a pass reading it applies
\* the same rule again.
C18_FailedWriteLeavesEntry ==
    [][C18_WriteThrows =>
          /\ pass.secretName \in DOMAIN cache'
          /\ cache'[pass.secretName] = cache[pass.secretName]
          /\ pass.secretName \notin hist'.written \cup hist'.removed
          /\ hist'.returned = {}
          /\ [msg |-> IF pass.existing THEN "Failed to update secret"
                      ELSE "Failed to create secret",
              key |-> pass.secretName] \in hist'.errors
          /\ ~pass.stale =>
                 /\ cache'[pass.secretName].secret = pass.secret
                 /\ cache'[pass.secretName].configMap = pass.configMap
                 /\ Halves(cache'[pass.secretName].secret, cache'[pass.secretName].configMap)
                        = IF pass.existing THEN "differ" ELSE "configMap"]_vars

\* A replace call has thrown and the entry holds the old Secret and the newer
\* ConfigMap.
C18_Witness ==
    \E x \in hist.failed :
        /\ x.op = "replace"
        /\ x.key \in DOMAIN cache
        /\ Halves(cache[x.key].secret, cache[x.key].configMap) = "differ"

\* ------------------------------------------------------------------ C19
\* The ConfigMap's data has no entry under its source key.
LacksSourceKey(configMap) == SourceKey(configMap) \notin configMap.data

\* C19: a pass that reads an entry whose ConfigMap has no data entry under its
\* source key (the source-key label, '.env' without the label) issues no
\* cluster call for it: no read of the decryption Secret, no create, no
\* replace; parseEnvContent is not called for it; the failure is logged for
\* the key and the entry stays in the cache as it was, for the next pass.
C19_MissingSourceKey ==
    \A v \in hist.visited :
        (v.halves \in {"configMap", "differ"} /\ LacksSourceKey(cache[v.key].configMap[1])) =>
            /\ IssuedFor(v.key) = {}
            /\ \A c \in hist.issued :
                   c.op = "read" => (pass.pc = "read" /\ pass.secretName # v.key)
            /\ (pass.secretName = v.key) => (pass.pc \in {"idle", "run"} /\ pass.calls = {})
            /\ \A p \in hist.parsed : TargetKey(p.configMap) # v.key
            /\ FailedFor(v.key)
            /\ v.key \notin hist.removed \cup hist.written
            /\ Halves(cache[v.key].secret, cache[v.key].configMap) = v.halves

\* A pass has read an entry whose ConfigMap names a decryption Secret and
\* has data under '.env' but none under the key its source-key label names.
C19_Witness ==
    \E v \in hist.visited :
        /\ v.halves \in {"configMap", "differ"}
        /\ LacksSourceKey(cache[v.key].configMap[1])
        /\ cache[v.key].configMap[1].sourceKey # Undefined
        /\ ".env" \in cache[v.key].configMap[1].data
        /\ cache[v.key].configMap[1].decryptionSecret # Undefined
        /\ FailedFor(v.key)

\* ------------------------------------------------------------------ C20
\* The decryption key a ConfigMap asks for: none without the
\* decryption-secret label; with it, the decoded value of the entry named by
\* the decryption-secret-key label (CONFIG_DECRYPTION_KEY without that label)
\* in the Secret of the label's name.  A Secret without that entry gives no
\* key at all (<<"no", "key">>, which no call of the parse function gets).
C20_KeyFor(configMap) ==
    IF configMap.decryptionSecret = Undefined THEN Undefined
    ELSE LET entry == IF configMap.decryptionSecretKey = Undefined
                      THEN "CONFIG_DECRYPTION_KEY"
                      ELSE configMap.decryptionSecretKey[1]
             secret == KeySecrets[configMap.decryptionSecret[1]]
         IN IF entry \in DOMAIN secret THEN Some(Base64Decode(secret[entry]))
            ELSE <<"no", "key">>

\* C20: a read is issued only for a ConfigMap with a decryption-secret label,
\* and it reads the Secret of that name in the ConfigMap's namespace; every
\* call of the parse function gets the content under the source key and the
\* key the ConfigMap asks for, which is no key without the label; and a write
\* is preceded by a read for its entry exactly when the ConfigMap has the
\* label.
C20_DecryptionKey ==
    /\ \A c \in hist.issued :
           c.op = "read" =>
               /\ pass.pc = "read"
               /\ pass.configMap[1].decryptionSecret # Undefined
               /\ c.key = PairKey(pass.configMap[1].namespace,
                                  pass.configMap[1].decryptionSecret[1])
    /\ (pass.pc = "read") =>
           (pass.configMap[1].decryptionSecret # Undefined /\ pass.calls = {"read"})
    /\ \A p \in hist.parsed :
           /\ p.data = p.configMap.content
           /\ p.decryptionSecret = C20_KeyFor(p.configMap)
    /\ (pass.pc = "write") =>
           (("read" \in pass.calls) <=> (pass.configMap[1].decryptionSecret # Undefined))

\* The parse function has been called with the key of the entry a
\* decryption-secret-key label names.
C20_Witness ==
    \E p \in hist.parsed :
        /\ p.configMap.decryptionSecretKey = Some("CUSTOM_KEY")
        /\ p.decryptionSecret = Some("key2")
        /\ pass.pc = "write"

\* ------------------------------------------------------------------ C21
\* The Secret the ConfigMap's decryption-secret label names has no entry of
\* the requested name.
C21_LacksKey(configMap) ==
    /\ configMap.decryptionSecret # Undefined
    /\ configMap.decryptionSecret[1] \in DOMAIN KeySecrets
    /\ (IF configMap.decryptionSecretKey = Undefined THEN "CONFIG_DECRYPTION_KEY"
        ELSE configMap.decryptionSecretKey[1])
           \notin DOMAIN KeySecrets[configMap.decryptionSecret[1]]

\* Materialization of the ConfigMap fails after the test of the source key:
\* the decryption Secret lacks the entry, or the parse function throws.
C21_Fails(configMap) ==
    /\ ~LacksSourceKey(configMap)
    /\ C21_LacksKey(configMap) \/ configMap.content = "bad"

\* C21: when the decryption Secret lacks the requested entry or the parse
\* function throws, then in the step in which materialization gets there (the
\* step that reads the entry for a ConfigMap without decryption Secret, the
\* step in which the read of the decryption Secret returns otherwise) no
\* create and no replace is issued for the entry, no Secret is assigned to it,
\* it is not removed, the failure is logged for its key and the pass does not
\* end with an error; the step in which the read returns leaves the entry as
\* it was, and when no watch event has replaced the entry during the read it
\* is still what the pass read, so that a pass reading it applies the same
\* rule again.
C21_MaterializationAborts ==
    /\ [](\A v \in hist.visited :
              (/\ v.halves \in {"configMap", "differ"}
               /\ cache[v.key].configMap[1].decryptionSecret = Undefined
               /\ C21_Fails(cache[v.key].configMap[1])) =>
                  /\ IssuedFor(v.key) = {}
                  /\ v.key \notin hist.written \cup hist.removed
                  /\ \A s \in hist.returned : SecretKey(s) # v.key
                  /\ FailedFor(v.key)
                  /\ [key |-> v.key, kind |-> "DecryptionFailed"] \in hist.aborted
                  /\ \A y \in hist.errors : y.msg # "Failed to sync secrets"
                  /\ pass.secretName = v.key => pass.pc \in {"idle", "run"}
                  /\ Halves(cache[v.key].secret, cache[v.key].configMap) = v.halves)
    /\ [][(ReadSecretSucceeds /\ C21_Fails(pass.configMap[1])) =>
             /\ \A c \in hist'.issued : c.key = pass.secretName => c.op \notin ClusterWrites
             /\ pass.secretName \in DOMAIN cache'
             /\ cache'[pass.secretName] = cache[pass.secretName]
             /\ pass.secretName \notin hist'.written \cup hist'.removed
             /\ \A s \in hist'.returned : SecretKey(s) # pass.secretName
             /\ [msg |-> IF pass.existing THEN "Failed to update secret"
                         ELSE "Failed to create secret",
                 key |-> pass.secretName] \in hist'.errors
             /\ [key |-> pass.secretName,
                 kind |-> IF C21_LacksKey(pass.configMap[1]) THEN "MissingDecryptionKey"
                          ELSE "DecryptionFailed"] \in hist'.aborted
             /\ \A y \in hist'.errors : y.msg # "Failed to sync secrets"
             /\ pass'.secretName = pass.secretName => pass'.pc \in {"idle", "run"}
             /\ ~pass.stale =>
                    /\ cache'[pass.secretName].secret = pass.secret
                    /\ cache'[pass.secretName].configMap = pass.configMap
                    /\ Halves(pass.secret, pass.configMap)
                           = IF pass.existing THEN "differ" ELSE "configMap"]_vars

\* In one step the pass gave up an entry whose decryption Secret lacks the
\* requested entry and went on to one whose content the parse function
\* rejects.
C21_Witness ==
    /\ \E x \in hist.aborted : x.kind = "MissingDecryptionKey"
    /\ \E x \in hist.aborted : x.kind = "DecryptionFailed"

\* ------------------------------------------------------------------ C22
\* The entries the event of a step can leave in the cache: those the cache
\* has and the one of the event's key.
C22_ConfigMapEventKeys == DOMAIN cache \cup {TargetKey(Head(cmEvents).object)}

C22_SecretEventKeys == DOMAIN cache \cup {SecretKey(Head(secEvents).object)}

\* What the event leaves in each entry: the half of the event's kind is the
\* event's object (nothing for DELETED) in the entry of the event's key, and
\* everything else is as it was.
C22_AfterConfigMapEvent ==
    LET ev == Head(cmEvents)
    IN [k \in C22_ConfigMapEventKeys |->
           IF k # PairKey(ev.object.namespace, ev.object.target) THEN cache[k]
           ELSE [secret |-> IF k \in DOMAIN cache THEN cache[k].secret ELSE Undefined,
                 configMap |-> IF ev.type = "DELETED" THEN Undefined ELSE Some(ev.object)]]

C22_AfterSecretEvent ==
    LET ev == Head(secEvents)
    IN [k \in C22_SecretEventKeys |->
           IF k # PairKey(ev.object.namespace, ev.object.name) THEN cache[k]
           ELSE [secret |-> IF ev.type = "DELETED" THEN Undefined ELSE Some(ev.object),
                 configMap |-> IF k \in DOMAIN cache THEN cache[k].configMap ELSE Undefined]]

\* The step leaves the cache as the event's assignment makes it; the one
\* other change is that of the pass the callback's trigger starts when the
\* engine is ready, which removes the entries it finds with both halves absent.
C22_Frame(after) ==
    /\ DOMAIN cache' \subseteq DOMAIN after
    /\ \A k \in DOMAIN after :
           IF k \in DOMAIN cache' THEN cache'[k] = after[k]
           ELSE isReady /\ k \in hist'.removed /\ after[k] = EmptyEntry
    /\ hist'.written = {}
    /\ ~isReady => (cache' = after /\ hist'.removed = {})

\* C22: a ConfigMap event changes the configMap half of the entry keyed by the
\* ConfigMap's namespace and target-secret label, to the event's object for
\* ADDED and MODIFIED and to absent for DELETED; a Secret event changes the
\* secret half of the entry keyed by the Secret's namespace and name in the
\* same way; the other half of that entry and every other entry are as they
\* were.
C22_EventChangesOneHalf ==
    /\ [][DeliverConfigMapEvent => C22_Frame(C22_AfterConfigMapEvent)]_vars
    /\ [][DeliverSecretEvent => C22_Frame(C22_AfterSecretEvent)]_vars

\* A Secret event has arrived for an entry that holds a ConfigMap while a pass
\* waits for a call on another entry, and the cache has two entries.
C22_Witness ==
    \E x \in hist.events :
        /\ x.kind = "Secret"
        /\ x.key \in DOMAIN cache
        /\ cache[x.key].configMap # Undefined
        /\ pass.pc \in {"delete", "read", "write"}
        /\ pass.secretName # x.key
        /\ Cardinality(DOMAIN cache) = 2

\* ------------------------------------------------------------------ C23
\* The engine's cache and scheduler.
C23_Engine == <<isReady, isPendingSync, cache, cacheOrder, pass, deferred>>

\* C23: the step in which a watch reports a transport error sets one timer
\* for the watch of that kind and leaves the other watch, its events, the
\* cache and the scheduler as they were; while a watch is down exactly one
\* such timer is outstanding for its kind, and none while it is up; the step
\* in which the timer fires registers the watch of that kind and leaves the
\* other watch and the engine as they were; a watch is registered by nothing
\* else after Manager.start; and a watch that is down is eventually registered
\* again.
C23_WatchErrorIsRetried ==
    /\ [][ConfigMapWatchError(MaxWatchErrors) =>
             /\ watchRetry' = [watchRetry EXCEPT !.ConfigMap = @ + 1]
             /\ UNCHANGED <<C23_Engine, secWatching, secEvents>>]_vars
    /\ [][SecretWatchError(MaxWatchErrors) =>
             /\ watchRetry' = [watchRetry EXCEPT !.Secret = @ + 1]
             /\ UNCHANGED <<C23_Engine, cmWatching, cmEvents>>]_vars
    /\ [](startPc # "watchConfigMaps" =>
              watchRetry.ConfigMap = IF cmWatching THEN 0 ELSE 1)
    /\ [](startPc \notin {"watchConfigMaps", "watchSecrets"} =>
              watchRetry.Secret = IF secWatching THEN 0 ELSE 1)
    /\ [][(~cmWatching /\ cmWatching') =>
             /\ startPc = "watchConfigMaps" \/ watchRetry'.ConfigMap = watchRetry.ConfigMap - 1
             /\ UNCHANGED <<C23_Engine, secWatching, secEvents>>]_vars
    /\ [][(~secWatching /\ secWatching') =>
             /\ startPc = "watchSecrets" \/ watchRetry'.Secret = watchRetry.Secret - 1
             /\ UNCHANGED <<C23_Engine, cmWatching, cmEvents>>]_vars
    /\ ((~cmWatching /\ startPc # "watchConfigMaps") ~> cmWatching)
    /\ ((~secWatching /\ startPc \notin {"watchConfigMaps", "watchSecrets"}) ~> secWatching)

\* After a transport error the ConfigMap watch has been registered again
\* while a pass waits for a cluster call, and has sent its ADDED events again.
C23_Witness ==
    /\ watchErrors = 1
    /\ hist.errors = {}
    /\ cmWatching /\ secWatching
    /\ watchRetry = [ConfigMap |-> 0, Secret |-> 0]
    /\ startPc = "started"
    /\ pass.pc \in {"delete", "write"}
    /\ cmEvents # <<>>
    /\ \E i \in DOMAIN cmEvents :
           /\ cmEvents[i].type = "ADDED"
           /\ TargetKey(cmEvents[i].object) \in DOMAIN cache
           /\ cache[TargetKey(cmEvents[i].object)].configMap = Some(cmEvents[i].object)

\* ------------------------------------------------------------------ C24
\* C24: with every cluster call returning or failing, a pass in flight
\* completes; a pass is suspended only at a cluster call; whenever no pass is
\* in flight after Manager.start the engine is ready, whatever errors the
\* pass that has just ended logged (a failed materialization, a failed
\* cluster call, or the exception that ends the pass); and every trigger that
\* finds the engine ready starts a pass.
C24_NoErrorStopsTheEngine ==
    /\ ((pass.pc # "idle") ~> (pass.pc = "idle"))
    /\ [](pass.pc \in {"idle", "delete", "read", "write"})
    /\ []((pass.pc = "idle" /\ startPc = "started") => (isReady /\ hist.activePasses = 0))
    /\ [](hist.errors # {} => (isReady <=> pass.pc = "idle"))
    /\ [][(isReady /\ C5_Trigger) => (hist'.started = "trigger" /\ hist'.activePasses <= 1)]_vars

\* A trigger has started a pass after a pass in which a cluster call failed.
C24_Witness ==
    /\ failures = LiveMaxFailures
    /\ hist.failed = {}
    /\ hist.started = "trigger"
    /\ hist.visited # {}
    /\ pass.pc = "read"

\* ------------------------------------------------------------------ C25
\* C25: with the timer firing every 30 s and the watches registered again
\* after every transport error, no Secret that no ConfigMap of the cluster
\* asks for stays in the cluster for ever, also when the DELETED event of its
\* ConfigMap was lost with the watch's connection.
C25_MissedChangeIsReconciled ==
    \A k \in Namespaces \X SecretNames :
        []<>(k \notin DOMAIN secrets \/ Targeted(k))

\* ------------------------------------------------------------------ C26
\* C26: once Manager.start has run, whenever isPendingSync is set and no pass
\* is in flight a setTimeout callback of line 100 is outstanding; isPendingSync
\* is set while a pass is in flight only for a trigger that arrived during it;
\* and a step clears isPendingSync only if it starts a pass.
C26_PendingIsNeverLost ==
    /\ []((startPc = "started" /\ isPendingSync /\ pass.pc = "idle") =>
              (isReady /\ deferred >= 1))
    /\ []((startPc = "started" /\ isPendingSync /\ pass.pc # "idle") => hist.owed)
    /\ [][(isPendingSync /\ ~isPendingSync') =>
             (hist'.started # "no" /\ hist'.activePasses <= 1)]_vars

\* A pass during which a trigger arrived has completed: the flag is set and
\* the re-run is scheduled.
C26_Witness ==
    /\ startPc = "started"
    /\ isPendingSync
    /\ pass.pc = "idle"
    /\ deferred = 1
    /\ hist.visited # {}

\* ------------------------------------------------------------------ C27
\* C27: no create call is issued for a key whose Secret the engine has
\* created with an earlier create call, unless the engine has deleted that
\* Secret or a DELETED event has been received for it since.
C27_NoSecondCreate ==
    \A c \in hist.issued : c.op = "create" => c.key \notin hist.created

\* ------------------------------------------------------------------ C28
\* C28: a pass that starts right after a pass during which no watch event
\* arrived and no cluster call failed, with no watch event in between, issues
\* no create, no replace and no delete and removes no entry from the cache.
C28_SecondPassDoesNothing ==
    (hist.quiet = "second") =>
        /\ \A c \in hist.issued : c.op \notin ClusterWrites
        /\ hist.removed = {}
        /\ pass.pc \notin {"delete", "write"}

\* ------------------------------------------------------------------ C29
\* C29: no two entries of the cache hold a ConfigMap of the same namespace
\* and name; in particular, after a MODIFIED event with another target-secret
\* label the entry of the old target holds the ConfigMap no more.
C29_ConfigMapHeldOnce ==
    \A k1, k2 \in DOMAIN cache :
        (/\ cache[k1].configMap # Undefined
         /\ cache[k2].configMap # Undefined
         /\ cache[k1].configMap[1].namespace = cache[k2].configMap[1].namespace
         /\ cache[k1].configMap[1].name = cache[k2].configMap[1].name) => k1 = k2

\* ------------------------------------------------------------------ C30
\* The ConfigMap id asks for the Secret k and the watch has reported it so:
\* it is in the cluster with that target and no event about it is undelivered.
C30_ReportedTargeting(id, k) ==
    /\ cmWatching
    /\ id \in DOMAIN configMaps
    /\ TargetKey(configMaps[id]) = k
    /\ \A i \in DOMAIN cmEvents :
           PairKey(cmEvents[i].object.namespace, cmEvents[i].object.name) # id

\* C30: a delete is issued for a Secret only when no ConfigMap that has been
\* reported ADDED or MODIFIED with the Secret as target, and not DELETED,
\* remains; also when another ConfigMap with the same target has been
\* reported DELETED.
C30_DeleteOnlyUntargeted ==
    \A c \in hist.issued :
        c.op = "delete" =>
            \A id \in Namespaces \X ConfigMapNames : ~C30_ReportedTargeting(id, c.key)

====
